---- MODULE Spec2Model ----
(***************************************************************************)
(* A model of src/ontario_gauge_subbasins.py: the run controller main(),   *)
(* process_gauge_row with its two sinks, and build_combined_zip.           *)
(*                                                                         *)
(* The script is sequential; pc is its position.  Every call that can      *)
(* raise (the filesystem, the Earth Engine client) either succeeds or      *)
(* raises, and an exception is never caught after start-up, so it ends the *)
(* run in pc = "error".  The output directory is empty when the run        *)
(* starts.  Numbers read from the CSV are kept in tenths of a degree.      *)
(***************************************************************************)
EXTENDS Integers, Sequences, FiniteSets, TLC

VARIABLES
    csv,             \* the input file: [columns, rows], rows map column -> cell text
    args,            \* the parsed command line (argparse namespace)
    pc,              \* position of the script
    it,              \* rows the iterator of main() has handed out
    count,           \* main(): count
    row,             \* main(): row_dict of the current row
    loc,             \* process_gauge_row: lat, lon, gid
    fc,              \* process_gauge_row: the feature collection (a server-side query)
    gdf,             \* process_gauge_row: the materialized features
    combined_paths,  \* main(): combined_paths
    dirs,            \* directories on disk
    files,           \* files on disk: path -> content
    queries,         \* the calls of get_subbasins_fc so far
    jobs,            \* export tasks started on Earth Engine
    pauses,          \* calls of time.sleep so far
    aggregations,    \* calls of build_combined_zip so far
    stdout,          \* lines printed
    err              \* the exception that ended the run, "" if none

vars == <<csv, args, pc, it, count, row, loc, fc, gdf, combined_paths, dirs,
          files, queries, jobs, pauses, aggregations, stdout, err>>

-----------------------------------------------------------------------------
(* Bounds and input domains *)

MaxRows == 2

LAT == "LATITUDE"
LON == "LONGITUDE"
ID  == "STATION_NUMBER"
RequiredCols == {LAT, LON, ID}

\* The coordinate cells of a row: inside the dataset, outside it, unparsable.
Coordinates ==
    { <<"45.5", "-80.1">>, <<"89.9", "-80.1">>, <<"n/a", "-80.1">>, <<"45.5", "n/a">> }

GaugeIds == {"A", "B"}

Cells == {c[1] : c \in Coordinates} \cup {c[2] : c \in Coordinates} \cup GaugeIds

\* The header of the file: all three columns, or one of them absent.
Headers == {RequiredCols} \cup {RequiredCols \ {c} : c \in RequiredCols}

RowsOver(cols) ==
    { r \in [cols -> Cells] :
        /\ ID \in cols => r[ID] \in GaugeIds
        /\ \E c \in Coordinates : /\ LAT \in cols => r[LAT] = c[1]
                                  /\ LON \in cols => r[LON] = c[2] }

TablesOver(h) ==
    { [columns |-> h, rows |-> rs] :
        rs \in UNION { [1..n -> RowsOver(h)] : n \in 0..MaxRows } }

Tables == UNION { TablesOver(h) : h \in Headers }

\* --limit: absent (None, the empty tuple here) or any integer.
None == <<>>
Limits == {None} \cup { <<n>> : n \in -1..MaxRows }

SleepSecs == {0, 1}

Modes == {"client", "ee_drive"}

DEFAULT_BUFFER_KM == 25

-----------------------------------------------------------------------------
(* Pure helpers *)

\* float(text): ok with the value in tenths, or ValueError.
Float(text) ==
    CASE text = "45.5"  -> [ok |-> TRUE, val |-> 455]
      [] text = "89.9"  -> [ok |-> TRUE, val |-> 899]
      [] text = "-80.1" -> [ok |-> TRUE, val |-> -801]
      [] OTHER          -> [ok |-> FALSE, val |-> 0]

\* get_subbasins_fc: the query, not yet evaluated; radius in metres.
get_subbasins_fc(lon, lat, buffer_km) ==
    [lon |-> lon, lat |-> lat, radius_m |-> buffer_km * 1000]

\* The dataset: the number of level-12 basins that meet the buffered region.
HydroATLAS(q) == IF q.lat = 455 /\ q.lon = -801 /\ q.radius_m > 0 THEN 3 ELSE 0

NoFc == [lon |-> 0, lat |-> 0, radius_m |-> 0]
NoGdf == [nfeat |-> 0, row |-> 0]
NoLoc == [lat |-> 0, lon |-> 0, gid |-> ""]

\* gdf.empty
GdfEmpty(g) == g.nfeat = 0

\* f"gauge_{gid}_subbasins" and the archive's file name
LayerName(gid) == "gauge_" \o gid \o "_subbasins"
ZipName(gid) == LayerName(gid) \o ".zip"

\* os.path.join(dir, name); paths are tuples of components
Join(dir, name) == Append(dir, name)
\* os.path.basename
Basename(p) == p[Len(p)]

OutZip(a, gid) == Join(<<a.out_dir>>, ZipName(gid))
\* out_zip_path.replace(".zip", ""), for an out_dir and an id without ".zip"
TmpDir(a, gid) == Join(<<a.out_dir>>, LayerName(gid))
CombinedZip(a) == Join(<<a.out_dir>>, "all_gauge_subbasins.zip")

\* The files of an ESRI shapefile written by GeoDataFrame.to_file
ShpExts == <<".shp", ".shx", ".dbf", ".prj", ".cpg">>

\* bool(args.limit): None and 0 are both false
Truthy(limit) == limit # None /\ limit[1] # 0

\* main(): "if args.limit and count >= args.limit"
LimitReached(limit, n) == Truthy(limit) /\ n >= limit[1]

\* a header check that forgets the id column
MissingColumnsSkipsId(df, a) == { c \in {a.lat_col, a.lon_col} : c \notin df.columns }

\* main(): the columns the check on the header misses
MissingColumns(df, a) == { c \in {a.lat_col, a.lon_col, a.id_col} : c \notin df.columns }

Say(msg, gid) == [msg |-> msg, gid |-> gid]

Raise(e) ==
    /\ pc' = "error"
    /\ err' = e

-----------------------------------------------------------------------------
Init ==
    /\ csv \in Tables
    /\ \E m \in Modes, l \in Limits, s \in SleepSecs :
         args = [lat_col |-> LAT, lon_col |-> LON, id_col |-> ID,
                 buffer_km |-> DEFAULT_BUFFER_KM, export_mode |-> m,
                 out_dir |-> "outputs", drive_folder |-> "None",
                 limit |-> l, sleep_sec |-> s]
    /\ pc = "start"
    /\ it = 0
    /\ count = 0
    /\ row = <<>>
    /\ loc = NoLoc
    /\ fc = NoFc
    /\ gdf = NoGdf
    /\ combined_paths = <<>>
    /\ dirs = {}
    /\ files = <<>>
    /\ queries = <<>>
    /\ jobs = <<>>
    /\ pauses = 0
    /\ aggregations = 0
    /\ stdout = <<>>
    /\ err = ""

-----------------------------------------------------------------------------
(* The filesystem *)

Put(f, p, v) == [q \in DOMAIN f \cup {p} |-> IF q = p THEN v ELSE f[q]]
Remove(f, ps) == [q \in DOMAIN f \ ps |-> f[q]]

\* the regular files directly under directory d
Under(d) == { p \in DOMAIN files : Len(p) = Len(d) + 1 /\ SubSeq(p, 1, Len(d)) = d }

\* os.walk(tmp_dir): the shapefile's files that exist, in directory order
WalkFiles(d) ==
    SelectSeq([i \in 1..Len(ShpExts) |-> Join(d, Basename(d) \o ShpExts[i])],
              LAMBDA p : p \in DOMAIN files)

Zip(entries) == [kind |-> "zip", entries |-> entries]
Entry(name, p) == [name |-> name, data |-> files[p]]

IsZip(p) == p \in DOMAIN files /\ files[p].kind = "zip"
\* the per-gauge archives on disk, and whether the combined one is
GaugeZips == { p \in DOMAIN files : IsZip(p) /\ p # CombinedZip(args) }

-----------------------------------------------------------------------------
(* main(), lines 145-149: output directory, Earth Engine, read_csv *)
Setup ==
    /\ pc = "start"
    /\ \/ /\ dirs' = dirs \cup {<<args.out_dir>>}
          /\ pc' = "validate"
          /\ err' = err
       \/ /\ dirs' = dirs                          \* ensure_dir raises
          /\ Raise("OSError")
       \/ /\ dirs' = dirs \cup {<<args.out_dir>>}  \* ee.Initialize raises twice
          /\ Raise("EEException")
       \/ /\ dirs' = dirs \cup {<<args.out_dir>>}  \* read_csv raises
          /\ Raise("OSError")
    /\ UNCHANGED <<csv, args, it, count, row, loc, fc, gdf, combined_paths, files,
                   queries, jobs, pauses, aggregations, stdout>>

(* main(), lines 150-156: the header check, then the loop's initial state *)
ValidateColumns ==
    /\ pc = "validate"
    /\ IF MissingColumns(csv, args) # {}
         THEN Raise("KeyError")
         ELSE pc' = "iterate" /\ err' = err
    /\ UNCHANGED <<csv, args, it, count, row, loc, fc, gdf, combined_paths, dirs,
                   files, queries, jobs, pauses, aggregations, stdout>>

\* row._asdict(): the model's column names are identifiers, so none is renamed
AsDict(r) == [c \in DOMAIN r |-> r[c]]

(* main(), lines 158-160: the next row of the iterator, or the end of the loop *)
NextRow ==
    /\ pc = "iterate"
    /\ IF it < Len(csv.rows)
         THEN /\ it' = it + 1
              /\ row' = AsDict(csv.rows[it + 1])
              /\ pc' = "parse"
         ELSE /\ pc' = "finish"
              /\ UNCHANGED <<it, row>>
    /\ UNCHANGED <<csv, args, count, loc, fc, gdf, combined_paths, dirs, files,
                   queries, jobs, pauses, aggregations, stdout, err>>

(* process_gauge_row, lines 99-103 *)
ParseRow ==
    /\ pc = "parse"
    /\ IF \E c \in {args.lat_col, args.lon_col, args.id_col} : c \notin DOMAIN row
         THEN Raise("KeyError") /\ UNCHANGED <<loc, stdout>>
         ELSE IF ~Float(row[args.lat_col]).ok \/ ~Float(row[args.lon_col]).ok
           THEN Raise("ValueError") /\ UNCHANGED <<loc, stdout>>
           ELSE /\ loc' = [lat |-> Float(row[args.lat_col]).val,
                           lon |-> Float(row[args.lon_col]).val,
                           gid |-> row[args.id_col]]
                /\ stdout' = Append(stdout, Say("Processing gauge", row[args.id_col]))
                /\ pc' = "query"
                /\ err' = err
    /\ UNCHANGED <<csv, args, it, count, row, fc, gdf, combined_paths, dirs, files,
                   queries, jobs, pauses, aggregations>>

(* process_gauge_row, lines 104-106: get_subbasins_fc and the mode branch *)
RegionQuery ==
    /\ pc = "query"
    /\ \/ /\ fc' = get_subbasins_fc(loc.lon, loc.lat, args.buffer_km)
          /\ queries' = Append(queries, fc')
          /\ pc' = IF args.export_mode = "client" THEN "materialize" ELSE "export"
          /\ err' = err
       \/ /\ Raise("EEException")
          /\ UNCHANGED <<fc, queries>>
    /\ UNCHANGED <<csv, args, it, count, row, loc, gdf, combined_paths, dirs, files,
                   jobs, pauses, aggregations, stdout>>

(* fc_to_geodataframe, lines 52-64, called at line 107 *)
Materialize ==
    /\ pc = "materialize"
    /\ \/ /\ gdf' = [nfeat |-> HydroATLAS(fc), row |-> it]
          /\ pc' = "branch"
          /\ err' = err
       \/ /\ Raise("EEException")        \* fc.getInfo() raises
          /\ gdf' = gdf
    /\ UNCHANGED <<csv, args, it, count, row, loc, fc, combined_paths, dirs, files,
                   queries, jobs, pauses, aggregations, stdout>>

\* the sink without the test of gdf.empty
SkipEmptyWritesAnyway ==
    /\ pc = "branch"
    /\ pc' = "shapefile"
    /\ UNCHANGED <<csv, args, it, count, row, loc, fc, gdf, combined_paths, dirs,
                   files, queries, jobs, pauses, aggregations, stdout, err>>

(* process_gauge_row, lines 108-110: skip an empty result with a notice *)
SkipEmpty ==
    /\ pc = "branch"
    /\ IF GdfEmpty(gdf)
         THEN /\ stdout' = Append(stdout, Say("No sub-basins found", loc.gid))
              /\ pc' = "count"
         ELSE /\ stdout' = stdout
              /\ pc' = "shapefile"
    /\ UNCHANGED <<csv, args, it, count, row, loc, fc, gdf, combined_paths, dirs,
                   files, queries, jobs, pauses, aggregations, err>>

(* write_shapefile_zip, lines 68-71: the temporary folder and the shapefile *)
WriteShapefile ==
    /\ pc = "shapefile"
    /\ LET tmp == TmpDir(args, loc.gid)
           shp == [kind |-> "shp", row |-> gdf.row, nfeat |-> gdf.nfeat]
           parts == { Join(tmp, LayerName(loc.gid) \o ShpExts[i]) : i \in 1..Len(ShpExts) }
       IN \/ /\ dirs' = dirs \cup {tmp}
             /\ files' = [q \in DOMAIN files \cup parts |->
                            IF q \in parts THEN shp ELSE files[q]]
             /\ pc' = "zip"
             /\ err' = err
          \/ /\ Raise("OSError")         \* ensure_dir raises
             /\ UNCHANGED <<dirs, files>>
          \/ /\ Raise("OSError")         \* to_file raises
             /\ dirs' = dirs \cup {tmp}
             /\ files' = files
    /\ UNCHANGED <<csv, args, it, count, row, loc, fc, gdf, combined_paths, queries,
                   jobs, pauses, aggregations, stdout>>

(* write_shapefile_zip, lines 73-78: open the archive for writing, add the folder *)
ZipFolder ==
    /\ pc = "zip"
    /\ LET tmp == TmpDir(args, loc.gid)
           out == OutZip(args, loc.gid)
           members == WalkFiles(tmp)
           entries == [i \in 1..Len(members) |-> Entry(Basename(members[i]), members[i])]
       IN \/ /\ files' = Put(files, out, Zip(entries))
             /\ pc' = "cleanup"
             /\ err' = err
          \/ /\ Raise("OSError")         \* the archive cannot be opened
             /\ files' = files
          \/ /\ Raise("OSError")         \* a write fails; the with block closes the archive
             /\ \E k \in 0..(Len(entries) - 1) :
                  files' = Put(files, out, Zip(SubSeq(entries, 1, k)))
    /\ UNCHANGED <<csv, args, it, count, row, loc, fc, gdf, combined_paths, dirs,
                   queries, jobs, pauses, aggregations, stdout>>

(* write_shapefile_zip, lines 80-85: delete the temporary folder *)
Cleanup ==
    /\ pc = "cleanup"
    /\ LET tmp == TmpDir(args, loc.gid)
       IN \/ /\ files' = Remove(files, Under(tmp))
             /\ dirs' = dirs \ {tmp}
             /\ pc' = "record"
             /\ err' = err
          \/ /\ Raise("OSError")
             /\ UNCHANGED <<files, dirs>>
    /\ UNCHANGED <<csv, args, it, count, row, loc, fc, gdf, combined_paths, queries,
                   jobs, pauses, aggregations, stdout>>

(* process_gauge_row, lines 113-114 *)
RecordPath ==
    /\ pc = "record"
    /\ combined_paths' = Append(combined_paths, OutZip(args, loc.gid))
    /\ stdout' = Append(stdout, Say("Wrote", loc.gid))
    /\ pc' = "count"
    /\ UNCHANGED <<csv, args, it, count, row, loc, fc, gdf, dirs, files, queries,
                   jobs, pauses, aggregations, err>>

\* an export that is started only for a region that meets some basin
QueueExportNonEmptyOnly ==
    /\ pc = "export"
    /\ IF HydroATLAS(fc) > 0
         THEN /\ jobs' = Append(jobs, [collection |-> fc,
                                        description |-> LayerName(loc.gid),
                                        fileFormat |-> "SHP",
                                        folder |-> args.drive_folder])
              /\ stdout' = Append(stdout, Say("Started EE export task", loc.gid))
         ELSE UNCHANGED <<jobs, stdout>>
    /\ pc' = "count"
    /\ UNCHANGED <<csv, args, it, count, row, loc, fc, gdf, combined_paths, dirs,
                   files, queries, pauses, aggregations, err>>

(* queue_ee_drive_export, lines 87-96, called at lines 117-118 *)
QueueExport ==
    /\ pc = "export"
    /\ \/ /\ jobs' = Append(jobs, [collection |-> fc,
                                   description |-> LayerName(loc.gid),
                                   fileFormat |-> "SHP",
                                   folder |-> args.drive_folder])
          /\ stdout' = Append(stdout, Say("Started EE export task", loc.gid))
          /\ pc' = "count"
          /\ err' = err
       \/ /\ Raise("EEException")        \* toDrive or task.start() raises
          /\ UNCHANGED <<jobs, stdout>>
    /\ UNCHANGED <<csv, args, it, count, row, loc, fc, gdf, combined_paths, dirs,
                   files, queries, pauses, aggregations>>

(* main(), lines 162-165: count the row, stop at the limit *)
CountRow ==
    /\ pc = "count"
    /\ count' = count + 1
    /\ IF LimitReached(args.limit, count')
         THEN /\ stdout' = Append(stdout, Say("Reached limit", ""))
              /\ pc' = "finish"
         ELSE /\ stdout' = stdout
              /\ pc' = "sleep"
    /\ UNCHANGED <<csv, args, it, row, loc, fc, gdf, combined_paths, dirs, files,
                   queries, jobs, pauses, aggregations, err>>

(* main(), lines 166-167 *)
Sleep ==
    /\ pc = "sleep"
    /\ pauses' = IF args.sleep_sec > 0 THEN pauses + 1 ELSE pauses
    /\ pc' = "iterate"
    /\ UNCHANGED <<csv, args, it, count, row, loc, fc, gdf, combined_paths, dirs,
                   files, queries, jobs, aggregations, stdout, err>>

\* the aggregator without its guard on an empty list
build_combined_zip_unguarded(zip_paths, a) ==
    /\ aggregations' = aggregations + 1
    /\ files' = Put(files, CombinedZip(a),
                    Zip([i \in 1..Len(zip_paths) |->
                           Entry(Basename(zip_paths[i]), zip_paths[i])]))
    /\ stdout' = Append(stdout, Say("Combined ZIP written", ""))
    /\ pc' = "done"
    /\ err' = err

(* build_combined_zip, lines 120-128 *)
build_combined_zip(zip_paths, a) ==
    /\ aggregations' = aggregations + 1
    /\ IF zip_paths = <<>>
         THEN /\ stdout' = Append(stdout, Say("No per-gauge ZIPs to combine.", ""))
              /\ files' = files
              /\ pc' = "done"
              /\ err' = err
         ELSE LET entries == [i \in 1..Len(zip_paths) |->
                                Entry(Basename(zip_paths[i]), zip_paths[i])]
              IN \/ /\ files' = Put(files, CombinedZip(a), Zip(entries))
                    /\ stdout' = Append(stdout, Say("Combined ZIP written", ""))
                    /\ pc' = "done"
                    /\ err' = err
                 \/ /\ Raise("OSError")  \* the archive cannot be opened
                    /\ UNCHANGED <<files, stdout>>
                 \/ /\ Raise("OSError")  \* a write fails; the with block closes the archive
                    /\ \E k \in 0..(Len(entries) - 1) :
                         files' = Put(files, CombinedZip(a), Zip(SubSeq(entries, 1, k)))
                    /\ stdout' = stdout

\* the end of main() without the test of the export mode
FinishAlwaysCombines ==
    /\ pc = "finish"
    /\ build_combined_zip(combined_paths, args)
    /\ UNCHANGED <<csv, args, it, count, row, loc, fc, gdf, combined_paths, dirs,
                   queries, jobs, pauses>>

(* main(), lines 169-173 *)
Finish ==
    /\ pc = "finish"
    /\ IF args.export_mode = "client"
         THEN build_combined_zip(combined_paths, args)
         ELSE /\ stdout' = Append(stdout, Say("All EE export tasks have been started.", ""))
              /\ pc' = "done"
              /\ UNCHANGED <<files, aggregations, err>>
    /\ UNCHANGED <<csv, args, it, count, row, loc, fc, gdf, combined_paths, dirs,
                   queries, jobs, pauses>>

Next ==
    \/ Setup
    \/ ValidateColumns
    \/ NextRow
    \/ ParseRow
    \/ RegionQuery
    \/ Materialize
    \/ SkipEmpty
    \/ WriteShapefile
    \/ ZipFolder
    \/ Cleanup
    \/ RecordPath
    \/ QueueExport
    \/ CountRow
    \/ Sleep
    \/ Finish

Spec == Init /\ [][Next]_vars

-----------------------------------------------------------------------------
(* What the input says about each row, for the properties below *)

Client == args.export_mode = "client"
Remote == args.export_mode = "ee_drive"

HeaderComplete == RequiredCols \subseteq csv.columns

\* the query get_subbasins_fc builds for row j of the file (a row that parses)
RowQuery(j) ==
    get_subbasins_fc(Float(csv.rows[j][LON]).val, Float(csv.rows[j][LAT]).val,
                     args.buffer_km)
RowGid(j) == csv.rows[j][ID]
\* row j of the file has a non-empty feature set
RowNonEmpty(j) == HydroATLAS(RowQuery(j)) > 0
NonEmptyRows(n) == { j \in 1..n : RowNonEmpty(j) }
\* the same rows, in file order
RECURSIVE NonEmptySeq(_)
NonEmptySeq(n) ==
    IF n = 0 THEN <<>>
    ELSE IF RowNonEmpty(n) THEN Append(NonEmptySeq(n - 1), n) ELSE NonEmptySeq(n - 1)

Min(a, b) == IF a < b THEN a ELSE b
Max(a, b) == IF a > b THEN a ELSE b

CombinedEntries ==
    IF CombinedZip(args) \in DOMAIN files THEN files[CombinedZip(args)].entries ELSE <<>>

\* the exception, if any, was raised while a row was being processed
RowFailure == pc = "error" /\ it >= 1 /\ count < it

-----------------------------------------------------------------------------
(* C1: with a record-count limit N the run processes exactly the first      *)
(* min(N, rows) rows (none for N <= 0), and every row without a limit.      *)
C1_FirstNRows ==
    pc = "done" =>
        LET n == Len(csv.rows)
            want == IF args.limit = None THEN n ELSE Min(Max(args.limit[1], 0), n)
        IN  /\ it = want
            /\ count = want
            /\ Len(queries) = want

(* C2: on normal completion in client mode the combined archive holds, in   *)
(* processing order, exactly one entry per processed gauge with a non-empty *)
(* feature set, named by that gauge's archive, and none for an empty gauge. *)
C2_OneEntryPerGauge ==
    (Client /\ pc = "done") =>
        LET rows == NonEmptySeq(it)
            named(j) == { k \in DOMAIN CombinedEntries :
                            CombinedEntries[k].name = ZipName(RowGid(j)) }
        IN  /\ Len(CombinedEntries) = Len(rows)
            /\ \A k \in DOMAIN rows :
                 /\ CombinedEntries[k].name = ZipName(RowGid(rows[k]))
                 /\ Cardinality(named(rows[k])) = 1

(* C3: in client mode a gauge whose feature set is empty changes nothing on *)
(* disk, adds no path to combined_paths, raises nothing because of it, and  *)
(* the run goes on to count the row.                                        *)
C3_EmptySkipped ==
    [][ (Client /\ pc \in {"materialize", "branch"} /\ HydroATLAS(fc) = 0) =>
          /\ files' = files
          /\ dirs' = dirs
          /\ combined_paths' = combined_paths
          /\ pc = "materialize" => (pc' = "branch" /\ gdf'.nfeat = 0) \/ err' = "EEException"
          /\ pc = "branch" => pc' = "count" /\ err' = "" ]_vars

C3_Witness ==
    /\ Client
    /\ pc = "parse"
    /\ it = 2
    /\ count = 1
    /\ gdf = [nfeat |-> 0, row |-> 1]
    /\ Len(stdout) >= 2 /\ stdout[2].msg = "No sub-basins found"

(* C4: with a required column absent from the table, the run raises         *)
(* KeyError right after the load: no row is taken, no region query is       *)
(* issued, no export job is submitted and no file is written.               *)
C4_MissingColumnFailsFirst ==
    /\ [](~HeaderComplete =>
            /\ pc \in {"start", "validate", "error"}
            /\ it = 0
            /\ queries = <<>>
            /\ jobs = <<>>
            /\ files = <<>>
            /\ aggregations = 0)
    /\ [][ (~HeaderComplete /\ pc = "validate") => (pc' = "error" /\ err' = "KeyError") ]_vars

C4_Witness ==
    /\ ~HeaderComplete
    /\ Len(csv.rows) = MaxRows
    /\ pc = "error"
    /\ err = "KeyError"

(* C5: in ee_drive mode no per-gauge archive and no combined archive is     *)
(* ever on disk, combined_paths stays empty and build_combined_zip is never *)
(* called, in runs that complete and in runs that an error halts.           *)
C5_RemoteWritesNothing ==
    Remote =>
        /\ files = <<>>
        /\ GaugeZips = {}
        /\ CombinedZip(args) \notin DOMAIN files
        /\ combined_paths = <<>>
        /\ aggregations = 0

C5_Witness ==
    /\ Remote
    /\ pc = "done"
    /\ it = 2
    /\ RowNonEmpty(1)
    /\ ~RowNonEmpty(2)

(* C6: in client mode every per-gauge archive belongs to one row: between   *)
(* rows the number of per-gauge archives equals the number of processed     *)
(* rows with a non-empty feature set and the length of combined_paths.      *)
C6_OneArchivePerRow ==
    (Client /\ pc \in {"iterate", "sleep", "finish", "done"}) =>
        /\ Cardinality(GaugeZips) = Cardinality(NonEmptyRows(it))
        /\ Len(combined_paths) = Cardinality(GaugeZips)

(* C7: a failure while row k is processed halts the run there: no later row *)
(* is taken, the aggregator is not called, no combined archive and no final *)
(* line is written, and the archives and jobs of earlier rows stay as made. *)
C7_FailureHalts ==
    RowFailure =>
        /\ Len(queries) \in {it - 1, it}
        /\ aggregations = 0
        /\ CombinedZip(args) \notin DOMAIN files
        /\ \A k \in DOMAIN stdout :
             stdout[k].msg \notin {"Combined ZIP written", "No per-gauge ZIPs to combine.",
                                   "All EE export tasks have been started."}
        /\ Remote => Len(jobs) = it - 1
        /\ Client =>
             \A j \in NonEmptyRows(it - 1) :
                LET p == OutZip(args, RowGid(j))
                IN  /\ IsZip(p)
                    /\ Len(files[p].entries) = Len(ShpExts)
                    /\ \A k \in DOMAIN files[p].entries :
                         /\ files[p].entries[k].data.row < it
                         /\ RowGid(files[p].entries[k].data.row) = RowGid(j)

(* C8: in ee_drive mode one export job is started per processed row, in     *)
(* file order, for empty and non-empty feature sets alike; when the run     *)
(* completes the jobs are as many as the rows processed.                    *)
C8_OneJobPerRow ==
    Remote =>
        /\ Len(jobs) \in {it - 1, it}
        /\ pc \in {"count", "sleep", "iterate", "finish", "done"} => Len(jobs) = it
        /\ pc = "done" => Len(jobs) = count
        /\ \A k \in DOMAIN jobs :
             /\ jobs[k].description = LayerName(RowGid(k))
             /\ jobs[k].collection = RowQuery(k)
             /\ jobs[k].collection = queries[k]

C8_Witness ==
    /\ Remote
    /\ pc = "done"
    /\ Len(jobs) = 2
    /\ HydroATLAS(jobs[1].collection) = 0
    /\ HydroATLAS(jobs[2].collection) > 0
    /\ jobs[1].description = jobs[2].description

(* C9: in client mode build_combined_zip is called once, after the last     *)
(* processed row is complete, with all the paths gathered; with no path it  *)
(* writes no combined archive.                                              *)
C9_AggregatorOnceAtEnd ==
    Client =>
        /\ aggregations <= 1
        /\ pc = "done" => aggregations = 1
        /\ aggregations = 1 => pc \in {"done", "error"} /\ count = it
        /\ pc \in {"iterate", "finish", "done"} =>
             /\ count = it
             /\ Len(queries) = it
             /\ Len(combined_paths) = Cardinality(NonEmptyRows(it))
        /\ pc = "done" =>
             /\ Len(CombinedEntries) = Len(combined_paths)
             /\ \A k \in DOMAIN combined_paths :
                  /\ CombinedEntries[k].name = Basename(combined_paths[k])
                  /\ CombinedEntries[k].data = files[combined_paths[k]]
             /\ (combined_paths = <<>>) <=> (CombinedZip(args) \notin DOMAIN files)

C9_Witness ==
    /\ Client
    /\ pc = "done"
    /\ it = 2
    /\ combined_paths = <<>>
    /\ stdout[Len(stdout)].msg = "No per-gauge ZIPs to combine."

(* C10: with a positive delay the pause is taken only between rows: a run   *)
(* that processes m >= 1 rows pauses m - 1 times.                           *)
C10_PausesBetweenRows ==
    (pc = "done" /\ args.sleep_sec > 0 /\ count >= 1) => pauses = count - 1

====
